---- MODULE Spec2Model ----
(***************************************************************************)
(* Model of src/src/cubemap/CubeMap.cpp: the CubeMap constructor, which    *)
(* resolves a mesh, a cube-map texture and a shader through the process-   *)
(* wide resource manager, and CubeMap::draw.  All of it runs on one        *)
(* thread: pc is the position of that thread.                              *)
(* The Pool application of src/src/pool/Pool.cpp is a program of its own:  *)
(* its state is the variable pool, and PoolSpec is its specification.      *)
(***************************************************************************)
EXTENDS Integers, Sequences, FiniteSets, TLC

VARIABLES
    cache,      \* the resource manager: a set of entries
    meshes,     \* every Mesh built with `new Mesh`, in order of construction
    buffers,    \* number of Buffer objects built with `new Buffer`
    textures,   \* every CubeMapTexture built with `new CubeMapTexture`
    shaders,    \* every CubeMapShader built with `new CubeMapShader`
    obj,        \* the CubeMap objects: lifecycle state, prefix, three handles
    group,      \* the drawable group the objects register into
    pc,         \* position of the thread: "idle" (event loop) or inside a constructor
    cur,        \* the object whose constructor is running (0: none)
    face,       \* index of the face the constructor loads next (0: none)
    cubeMap,    \* local `cubeMap`: index of the texture being built (0: none)
    importer,   \* local `importer`: the handle got for "tga-importer"
    missed,     \* keys whose get missed in the running constructor
    lastDraw,   \* the most recent draw call: its inputs and the GPU commands issued
    pool        \* the Pool application: its members and the pending redraw request

cubeMapVars == <<cache, meshes, buffers, textures, shaders, obj, group, pc, cur, face,
                 cubeMap, importer, missed, lastDraw>>

vars == <<cubeMapVars, pool>>

----------------------------------------------------------------------------
\* Bounds of the model

\* CubeMap objects ever constructed
MaxObjects == 2

\* key events the Pool application handles
MaxKeys == 3

\* face edges are 2^0 .. 2^MaxExp
MaxExp == 8

Objs == 1..MaxObjects

Prefixes == {"a/", "b/"}

RECURSIVE Pow2(_)
Pow2(e) == IF e = 0 THEN 1 ELSE 2 * Pow2(e - 1)

\* Sizes of the decoded face images: every power-of-two square, two rectangles,
\* and two sizes whose edges are no powers of two
Sizes == {<<Pow2(e), Pow2(e)>> : e \in 0..MaxExp}
            \cup {<<Pow2(MaxExp), 2>>, <<1, Pow2(MaxExp)>>, <<3, 7>>, <<100, 100>>}

\* image2D(0) returns a null pointer when the file could not be opened or decoded
NoImage == <<>>

ImageResults == Sizes \cup {NoImage}

\* 2x2 matrices <<a, b, c, d>> standing for Matrix4; the two do not commute
Mats == {<<1, 1, 0, 1>>, <<1, 0, 1, 1>>}

Mul(X, Y) == << X[1] * Y[1] + X[2] * Y[3], X[1] * Y[2] + X[2] * Y[4],
                X[3] * Y[1] + X[4] * Y[3], X[3] * Y[2] + X[4] * Y[4] >>

----------------------------------------------------------------------------
\* Resource keys, one per (kind, key)

MeshKey == [kind |-> "Mesh", key |-> "cube"]
BufferKey == [kind |-> "Buffer", key |-> "cube-buffer"]
IndexBufferKey == [kind |-> "Buffer", key |-> "cube-index-buffer"]
TextureKey == [kind |-> "CubeMapTexture", key |-> "texture"]
ShaderKey == [kind |-> "AbstractShaderProgram", key |-> "shader"]

\* (variant: the key misspelt in the constructor)
ImporterKeyMisspelt == [kind |-> "AbstractImporter", key |-> "tga-imported"]

ImporterKey == [kind |-> "AbstractImporter", key |-> "tga-importer"]

\* Policies the constructor registers with
\* (variant: the mesh is registered as ReferenceCounted)
MeshPolicyCounted == "ReferenceCounted"

MeshPolicy == "Resident"
BufferPolicy == "Resident"

\* (variant: the texture is registered as ReferenceCounted)
TexturePolicyCounted == "ReferenceCounted"

TexturePolicy == "Manual"

\* (variant: the shader is registered as ReferenceCounted)
ShaderPolicyCounted == "ReferenceCounted"

ShaderPolicy == "Manual"

\* (variant: the PositiveY block pasted without changing the face)
FaceOrderPasted == <<"PositiveX", "NegativeX", "PositiveY", "PositiveY", "PositiveZ", "NegativeZ">>

\* The six faces in the order the constructor loads them
FaceOrder == <<"PositiveX", "NegativeX", "PositiveY", "NegativeY", "PositiveZ", "NegativeZ">>
FaceFile == <<"+x.tga", "-x.tga", "+y.tga", "-y.tga", "+z.tga", "-z.tga">>

----------------------------------------------------------------------------
\* The resource manager (ResourceManager::get, ::set, handle release)

Entries(c, k) == {e \in c : e.kind = k.kind /\ e.key = k.key}

\* the data a handle for k resolves to (0: null)
Acquire(c, k) ==
    IF Entries(c, k) = {} THEN 0 ELSE (CHOOSE e \in Entries(c, k) : TRUE).data

\* get<Kind>(key): the handle; it keeps its key also on a miss
Get(c, k) == [kind |-> k.kind, key |-> k.key, data |-> Acquire(c, k)]

\* get's effect on the cache: a hit on a ReferenceCounted entry counts the handle
CacheAfterGet(c, k) ==
    {IF e \in Entries(c, k) /\ e.policy = "ReferenceCounted"
        THEN [e EXCEPT !.refCount = @ + 1] ELSE e : e \in c}

\* set<Kind>(key, data, state, policy): registers an entry
Set(c, k, data, state, policy) ==
    c \cup {[kind |-> k.kind, key |-> k.key, data |-> data, state |-> state,
             policy |-> policy, refCount |-> 0]}

\* releasing a handle: a ReferenceCounted entry whose count reaches zero is evicted
Release(c, h) ==
    LET hit(e) == e.kind = h.kind /\ e.key = h.key /\ e.policy = "ReferenceCounted"
        dec(e) == IF e.refCount > 0 THEN e.refCount - 1 ELSE 0
    IN  {IF hit(e) THEN [e EXCEPT !.refCount = dec(e)] ELSE e :
            e \in {x \in c : ~(hit(x) /\ dec(x) = 0)}}

\* the handle's entry exists in state Final
IsFinal(c, h) == \E e \in Entries(c, h) : e.data = h.data /\ e.state = "Final"

NoHandle == [kind |-> "", key |-> "", data |-> 0]

\* a shader uniform never uploaded, and the draw record before any draw
NoMatrix == <<0, 0, 0, 0>>

NoDraw == [state |-> "", projection |-> NoMatrix, view |-> NoMatrix,
           world |-> NoMatrix, shader |-> 0, texture |-> 0, mesh |-> 0, final |-> FALSE,
           ops |-> <<>>]
----------------------------------------------------------------------------
\* Pure helpers of the constructor

Min(size) == IF size[1] <= size[2] THEN size[1] ELSE size[2]

\* Math::log2 on an unsigned integer: counts the right shifts that leave a non-zero value
RECURSIVE Log2(_)
Log2(n) == IF n \div 2 = 0 THEN 0 ELSE 1 + Log2(n \div 2)

\* (variant: the + 1 forgotten)
MipLevelsLog(size) == Log2(Min(size))

\* the first argument of setStorage
MipLevels(size) == Log2(Min(size)) + 1

NewTexture(o) ==
    [by |-> o, prefix |-> obj[o].prefix,
     wrapping |-> "ClampToEdge", magFilter |-> "Linear", minFilter |-> "Linear/Linear",
     levels |-> 0, format |-> "", size |-> <<0, 0>>, first |-> NoImage,
     opened |-> <<>>, ops |-> <<>>, failedAt |-> 0]

\* the Pool application before main constructs it
PoolNotStarted ==
    [pc |-> "main", ducks |-> "nullptr", flipped |-> FALSE, camera |-> <<>>,
     viewport |-> <<0, 0>>, redraw |-> FALSE, front |-> 0, lastKey |-> "", keys |-> 0]

----------------------------------------------------------------------------
Init ==
    \* the importer plugin is registered by the application, outside this file
    /\ cache \in {{}, {[kind |-> "AbstractImporter", key |-> "tga-importer", data |-> 1,
                        state |-> "Final", policy |-> "Manual", refCount |-> 0]}}
    /\ meshes = <<>>
    /\ buffers = 0
    /\ textures = <<>>
    /\ shaders = <<>>
    /\ obj = [o \in Objs |-> [state |-> "None", prefix |-> "", cube |-> NoHandle,
                              texture |-> NoHandle, shader |-> NoHandle]]
    /\ group = {}
    /\ pc = "idle"
    /\ cur = 0
    /\ face = 0
    /\ cubeMap = 0
    /\ importer = NoHandle
    /\ missed = {}
    /\ lastDraw = NoDraw
    /\ pool = PoolNotStarted

\* CubeMap::CubeMap, base-class initializers: the object joins the drawable group
Construct(o, prefix) ==
    /\ pc = "idle"
    /\ obj[o].state = "None"
    /\ \A p \in Objs : p < o => obj[p].state # "None"
    /\ obj' = [obj EXCEPT ![o].state = "Constructing", ![o].prefix = prefix]
    /\ group' = group \cup {o}
    /\ pc' = "mesh"
    /\ cur' = o
    /\ missed' = {}
    /\ UNCHANGED <<cache, meshes, buffers, textures, shaders, face, cubeMap, importer, lastDraw>>

\* the cube mesh branch
\* (variant: the result of get is not tested, the mesh is rebuilt every time)
MeshMissAlways(h) == TRUE

MeshMiss(h) == h.data = 0

ResolveMesh ==
    /\ pc = "mesh"
    /\ LET h == Get(cache, MeshKey)
           c1 == CacheAfterGet(cache, MeshKey)
       IN  IF MeshMiss(h)
           THEN LET mesh == Len(meshes) + 1
                    buffer == buffers + 1
                    indexBuffer == buffers + 2
                    c2 == Set(c1, BufferKey, buffer, "Final", BufferPolicy)
                    c3 == Set(c2, IndexBufferKey, indexBuffer, "Final", BufferPolicy)
                    c4 == Set(c3, [kind |-> h.kind, key |-> h.key], mesh, "Final", MeshPolicy)
                IN  /\ meshes' = Append(meshes, [by |-> cur, indexBuffer |-> indexBuffer,
                                                 vertexBuffer |-> buffer,
                                                 primitive |-> "Triangles", winding |-> "flipped"])
                    /\ buffers' = buffers + 2
                    /\ cache' = c4
                    /\ missed' = missed \cup {MeshKey}
                    /\ obj' = [obj EXCEPT ![cur].cube = Get(c4, MeshKey)]
           ELSE /\ cache' = c1
                /\ obj' = [obj EXCEPT ![cur].cube = h]
                /\ UNCHANGED <<meshes, buffers, missed>>
    /\ pc' = "texture"
    /\ UNCHANGED <<textures, shaders, group, cur, face, cubeMap, importer, lastDraw>>

\* the texture branch up to the importer handle: get, new CubeMapTexture, sampling setup
\* (variant: the result of get is not tested, the texture is rebuilt every time)
TextureMissAlways(h) == TRUE

TextureMiss(h) == h.data = 0

ResolveTexture ==
    /\ pc = "texture"
    /\ LET h == Get(cache, TextureKey)
           c1 == CacheAfterGet(cache, TextureKey)
       IN  IF TextureMiss(h)
           THEN /\ textures' = Append(textures, NewTexture(cur))
                /\ cubeMap' = Len(textures) + 1
                /\ importer' = Get(c1, ImporterKey)
                /\ cache' = CacheAfterGet(c1, ImporterKey)
                /\ missed' = missed \cup {TextureKey}
                /\ obj' = [obj EXCEPT ![cur].texture = h]
                /\ pc' = "face"
                /\ face' = 1
           ELSE /\ cache' = c1
                /\ obj' = [obj EXCEPT ![cur].texture = h]
                /\ pc' = "shader"
                /\ UNCHANGED <<textures, cubeMap, importer, missed, face>>
    /\ UNCHANGED <<meshes, buffers, shaders, group, cur, lastDraw>>

GpuOp(op, f, level) == [op |-> op, face |-> f, level |-> level]

\* setStorage from the size of the image, for the first face only
Storage(t, i, size) ==
    IF i = 1
    THEN [t EXCEPT !.levels = MipLevels(size), !.format = "RGB8", !.size = size,
                   !.ops = Append(@, GpuOp("setStorage", "", 0))]
    ELSE t

\* setSubImage of face i at mip level 0
SubImage(t, i) == [t EXCEPT !.ops = Append(@, GpuOp("setSubImage", FaceOrder[i], 0))]

Upload(t, i, size) == SubImage(Storage(t, i, size), i)

\* importer->openFile(prefix + "+x.tga") and so on: the file asked for
OpenFile(t, prefix, i) == [t EXCEPT !.opened = Append(@, <<prefix, FaceFile[i]>>)]

NextFace ==
    IF face = Len(FaceOrder)
    THEN pc' = "mipmap" /\ face' = 0
    ELSE pc' = "face" /\ face' = face + 1

\* one face: openFile(prefix + FaceFile[face]), image2D(0), (setStorage,) setSubImage,
\* delete image.  Neither result is checked: a null importer or a null image is
\* dereferenced, which either ends the process or goes on with whatever is read.
LoadFace ==
    /\ pc = "face"
    /\ \E img \in (IF importer.data = 0 THEN {NoImage} ELSE ImageResults) :
        LET opened == OpenFile(textures[cubeMap], obj[cur].prefix, face)
        IN
        IF img # NoImage
        THEN /\ textures' = [textures EXCEPT ![cubeMap] =
                                Upload([opened EXCEPT !.first = IF face = 1 THEN img ELSE @],
                                       face, img)]
             /\ NextFace
        ELSE LET failed == [opened EXCEPT !.failedAt = IF @ = 0 THEN face ELSE @]
             IN  \/ /\ textures' = [textures EXCEPT ![cubeMap] = failed]
                    /\ pc' = "crashed"
                    /\ face' = face
                 \/ \E garbage \in Sizes :
                    /\ textures' = [textures EXCEPT ![cubeMap] = Upload(failed, face, garbage)]
                    /\ NextFace
    /\ UNCHANGED <<cache, meshes, buffers, shaders, obj, group, cur, cubeMap, importer,
                   missed, lastDraw>>

GenerateMipmap ==
    /\ pc = "mipmap"
    /\ textures' = [textures EXCEPT ![cubeMap].ops = Append(@, GpuOp("generateMipmap", "", 0))]
    /\ pc' = "setTexture"
    /\ UNCHANGED <<cache, meshes, buffers, shaders, obj, group, cur, face, cubeMap, importer,
                   missed, lastDraw>>

\* set(texture.key(), cubeMap, Final, Manual); the locals of the branch go out of scope
SetTexture ==
    /\ pc = "setTexture"
    /\ LET h == obj[cur].texture
           c1 == Set(cache, [kind |-> h.kind, key |-> h.key], cubeMap, "Final", TexturePolicy)
       IN  /\ cache' = Release(c1, importer)
           /\ obj' = [obj EXCEPT ![cur].texture = Get(c1, TextureKey)]
    /\ cubeMap' = 0
    /\ importer' = NoHandle
    /\ pc' = "shader"
    /\ UNCHANGED <<meshes, buffers, textures, shaders, group, cur, face, missed, lastDraw>>

\* the shader branch; the constructor returns after it
ShaderMiss(h) == h.data = 0

\* (variant: the new shader is never registered)
ShaderSetSkipped(c, h, data) == c

\* (variant: the new shader is registered in state Loading)
ShaderSetLoading(c, h, data) ==
    Set(c, [kind |-> h.kind, key |-> h.key], data, "Loading", ShaderPolicy)

ShaderSet(c, h, data) ==
    Set(c, [kind |-> h.kind, key |-> h.key], data, "Final", ShaderPolicy)

ResolveShader ==
    /\ pc = "shader"
    /\ LET h == Get(cache, ShaderKey)
           c1 == CacheAfterGet(cache, ShaderKey)
       IN  IF ShaderMiss(h)
           THEN LET c2 == ShaderSet(c1, h, Len(shaders) + 1)
                IN  /\ shaders' = Append(shaders, [by |-> cur, uniform |-> NoMatrix])
                    /\ cache' = c2
                    /\ missed' = missed \cup {ShaderKey}
                    /\ obj' = [obj EXCEPT ![cur].shader = Get(c2, ShaderKey), ![cur].state = "Ready"]
           ELSE /\ cache' = c1
                /\ obj' = [obj EXCEPT ![cur].shader = h, ![cur].state = "Ready"]
                /\ UNCHANGED <<shaders, missed>>
    /\ pc' = "idle"
    /\ cur' = 0
    /\ UNCHANGED <<meshes, buffers, textures, group, face, cubeMap, importer, lastDraw>>

----------------------------------------------------------------------------
\* CubeMap::draw

\* the camera draws the members of the group from the event loop
DrawEnabled(o) == pc = "idle" /\ o \in group

\* (variant: the operands swapped)
UniformSwapped(projectionMatrix, transformationMatrix) == Mul(transformationMatrix, projectionMatrix)

\* the matrix handed to setTransformationProjectionMatrix
Uniform(projectionMatrix, transformationMatrix) == Mul(projectionMatrix, transformationMatrix)

\* (variant: draw frees the Manual entries)
DrawCacheFree(c, o) == {e \in c : e.policy # "Manual"}

\* what draw does to the resource manager: it calls neither get nor set
DrawCache(c, o) == c

\* (variant: the texture is bound after the mesh is drawn)
DrawOpsLateBind(s, t, m, u) ==
    << [op |-> "setTransformationProjectionMatrix", on |-> s, value |-> u],
       [op |-> "use", on |-> s, value |-> NoMatrix],
       [op |-> "draw", on |-> m, value |-> NoMatrix],
       [op |-> "bind", on |-> t, value |-> NoMatrix] >>

\* the calls of draw in the order of the source: the uniform is set on the shader,
\* and use() is called on what the setter returns
DrawOps(s, t, m, u) ==
    << [op |-> "setTransformationProjectionMatrix", on |-> s, value |-> u],
       [op |-> "use", on |-> s, value |-> NoMatrix],
       [op |-> "bind", on |-> t, value |-> NoMatrix],
       [op |-> "draw", on |-> m, value |-> NoMatrix] >>

Draw(o) ==
    /\ DrawEnabled(o)
    /\ \E projection \in Mats, view \in Mats, world \in Mats :
        LET transformationMatrix == Mul(view, world)
            s == Acquire(cache, obj[o].shader)
            t == Acquire(cache, obj[o].texture)
            m == Acquire(cache, obj[o].cube)
            u == Uniform(projection, transformationMatrix)
            call == [state |-> obj[o].state, projection |-> projection,
                     view |-> view, world |-> world, shader |-> s, texture |-> t,
                     mesh |-> m,
                     final |-> \A h \in {obj[o].shader, obj[o].texture, obj[o].cube} :
                                   IsFinal(cache, h),
                     ops |-> DrawOps(s, t, m, u)]
        IN  IF s # 0 /\ t # 0 /\ m # 0
            THEN /\ shaders' = [shaders EXCEPT ![s].uniform = u]
                 /\ lastDraw' = call
                 /\ pc' = pc
            ELSE \* a handle without a resource is dereferenced
                 /\ lastDraw' = call
                 /\ pc' \in {"crashed", pc}
                 /\ UNCHANGED shaders
    /\ cache' = DrawCache(cache, o)
    /\ UNCHANGED <<meshes, buffers, textures, obj, group, cur, face, cubeMap, importer, missed>>

\* CubeMap::~CubeMap (implicit): leaves the group, releases the three handles
Destroy(o) ==
    /\ pc = "idle"
    /\ obj[o].state = "Ready"
    /\ group' = group \ {o}
    /\ cache' = Release(Release(Release(cache, obj[o].shader), obj[o].texture), obj[o].cube)
    /\ obj' = [obj EXCEPT ![o].state = "Destroyed", ![o].prefix = "", ![o].cube = NoHandle,
                          ![o].texture = NoHandle, ![o].shader = NoHandle]
    /\ UNCHANGED <<meshes, buffers, textures, shaders, pc, cur, face, cubeMap, importer,
                   missed, lastDraw>>

----------------------------------------------------------------------------
Next ==
    \/ (\E o \in Objs, prefix \in Prefixes : Construct(o, prefix)) /\ UNCHANGED pool
    \/ ResolveMesh /\ UNCHANGED pool
    \/ ResolveTexture /\ UNCHANGED pool
    \/ LoadFace /\ UNCHANGED pool
    \/ GenerateMipmap /\ UNCHANGED pool
    \/ SetTexture /\ UNCHANGED pool
    \/ ResolveShader /\ UNCHANGED pool
    \/ (\E o \in Objs : Draw(o)) /\ UNCHANGED pool
    \/ (\E o \in Objs : Destroy(o)) /\ UNCHANGED pool

Spec == Init /\ [][Next]_vars

----------------------------------------------------------------------------
\* The Pool application (src/src/pool/Pool.cpp)

\* the keys keyEvent tells apart, and one it has no branch for
PoolKeys == {"Left", "Right", "Up", "Down", "PageUp", "PageDown", "End", "Home"}

\* what Ducks::tryCreate can return: the new object, or a null pointer
TryCreateResults == {"object", "nullptr"}

\* the camera transformations of the constructor
CameraSetup == <<"translate(0, 0, 3.5)", "rotate(-15, xAxis)", "rotate(25, yAxis)">>

\* the camera transformation of each branch of keyEvent
CameraMove(key) ==
    CASE key = "Left" -> <<"rotate(5, yAxis)">>
      [] key = "Right" -> <<"rotate(-5, yAxis)">>
      [] key = "Up" -> <<"rotate(-5, camera x)">>
      [] key = "Down" -> <<"rotate(5, camera x)">>
      [] key = "PageUp" -> <<"translate(z -0.2, Local)">>
      [] key = "PageDown" -> <<"translate(z 0.2, Local)">>
      [] OTHER -> <<>>

Viewports == {<<640, 480>>, <<800, 600>>}

\* Pool::Pool: camera, lights, quad, and the ducks, which tryCreate may fail to make
PoolConstruct ==
    /\ pool.pc = "main"
    /\ \E d \in TryCreateResults :
        pool' = [pool EXCEPT !.pc = "exec", !.camera = CameraSetup, !.ducks = d]
    /\ UNCHANGED cubeMapVars

\* Pool::viewportEvent
ViewportEvent(size) ==
    /\ pool.pc = "exec"
    /\ pool' = [pool EXCEPT !.viewport = size]
    /\ UNCHANGED cubeMapVars

\* Pool::drawEvent: camera->draw(), swapBuffers(), sleep, redraw()
DrawEvent ==
    /\ pool.pc = "exec"
    /\ pool' = [pool EXCEPT !.front = 1 - @, !.redraw = TRUE]
    /\ UNCHANGED cubeMapVars

\* Pool::keyEvent: the branch of the key, then redraw().  ducks is not tested before
\* ducks->flip(): with a null pointer the call either ends the process or goes on.
KeyEvent(key) ==
    /\ pool.pc = "exec"
    /\ pool.keys < MaxKeys
    /\ LET handled == [pool EXCEPT !.camera = @ \o CameraMove(key), !.lastKey = key,
                                   !.keys = @ + 1]
       IN  IF key = "End"
           THEN IF pool.ducks = "object"
                THEN pool' = [handled EXCEPT !.flipped = ~@, !.redraw = TRUE]
                ELSE \/ pool' = [handled EXCEPT !.pc = "crashed"]
                     \/ pool' = [handled EXCEPT !.redraw = TRUE]
           ELSE pool' = [handled EXCEPT !.redraw = TRUE]
    /\ UNCHANGED cubeMapVars

PoolInit == Init /\ cache = {}

PoolNext ==
    \/ PoolConstruct
    \/ \E size \in Viewports : ViewportEvent(size)
    \/ DrawEvent
    \/ \E key \in PoolKeys : KeyEvent(key)

PoolSpec == PoolInit /\ [][PoolNext]_vars

----------------------------------------------------------------------------
\* Properties

Ready(o) == obj[o].state = "Ready"

ResolvedKeys == {MeshKey, TextureKey, ShaderKey}

AllKeys == ResolvedKeys \cup {BufferKey, IndexBufferKey, ImporterKey}

\* C1: over any sequence of constructions, with any prefixes, the mesh "cube", the
\* texture "texture" and the shader "shader" are each constructed at most once, and
\* exactly once as soon as an object is Ready, by a constructor no later than any
\* object holding them; every Ready object's handle for a key refers to the one
\* instance the cache holds under that key.
C1_SingleConstruction ==
    /\ Len(meshes) <= 1 /\ Len(textures) <= 1 /\ Len(shaders) <= 1
    /\ \A o \in Objs : Ready(o) =>
        /\ Len(meshes) = 1 /\ Len(textures) = 1 /\ Len(shaders) = 1
        /\ meshes[1].by <= o /\ textures[1].by <= o /\ shaders[1].by <= o
        /\ \A h \in {obj[o].cube, obj[o].texture, obj[o].shader} :
            /\ h.data = 1
            /\ \A e \in Entries(cache, h) : e.data = h.data
            /\ Entries(cache, h) # {}
    /\ \A o \in Objs, p \in Objs : Ready(o) /\ Ready(p) =>
        /\ obj[o].cube = obj[p].cube
        /\ obj[o].texture = obj[p].texture
        /\ obj[o].shader = obj[p].shader

\* two objects built from different prefixes are Ready and share the three resources
C1_Witness ==
    /\ Ready(1) /\ Ready(2)
    /\ obj[1].prefix # obj[2].prefix
    /\ textures[1].by = 1

\* a set call for k: an entry for k appears that was not there
Registered(k) ==
    \E e \in Entries(cache', k) :
        \A f \in Entries(cache, k) : f.data # e.data

AtMostOneEntryPerKey == \A k \in AllKeys : Cardinality(Entries(cache, k)) <= 1

\* C2 as stated: at most one entry per (kind, key), and every set is preceded, in the
\* same constructor run, by a get of that same (kind, key) that missed.
C2_SetAfterOwnMiss ==
    /\ []AtMostOneEntryPerKey
    /\ [][\A k \in AllKeys : Registered(k) => Entries(cache, k) = {} /\ k \in missed']_vars

\* C2 amended: at most one entry per (kind, key); every set is for a (kind, key) that
\* has no entry; the sets of "cube", "texture" and "shader" follow a get of the same
\* key that missed in the same run, and the sets of "cube-buffer" and
\* "cube-index-buffer" follow the missed get of the mesh "cube" in the same run.
C2_SetOnlyWhenAbsent ==
    /\ []AtMostOneEntryPerKey
    /\ [][\A k \in AllKeys : Registered(k) =>
            /\ Entries(cache, k) = {}
            /\ \/ k \in missed'
               \/ k \in {BufferKey, IndexBufferKey} /\ MeshKey \in missed']_vars

\* a second constructor has run through all its branches after all five sets
C2_Witness ==
    /\ \A k \in ResolvedKeys \cup {BufferKey, IndexBufferKey} : Entries(cache, k) # {}
    /\ Ready(1) /\ Ready(2)
    /\ missed = {}

Uploads(t) == Cardinality({j \in 1..Len(t.ops) : t.ops[j].op = "setSubImage"})

\* C3: with the importer registered, when opening or decoding one of the six faces
\* fails, the construction is aborted and the error reaches the caller (the thread is
\* back in the caller, the object is neither Constructing nor Ready nor in the
\* drawable group), no entry holds the texture, and no face is uploaded from the
\* failing one on.
C3_FaceFailureAborts ==
    \A i \in 1..Len(textures) :
        LET t == textures[i]
        IN  Acquire(cache, ImporterKey) # 0 /\ t.failedAt # 0 =>
                /\ pc = "idle"
                /\ obj[t.by].state \notin {"Constructing", "Ready"}
                /\ t.by \notin group
                /\ \A e \in Entries(cache, TextureKey) : e.data # i
                /\ Uploads(t) < t.failedAt

Handles(o) == {obj[o].cube, obj[o].texture, obj[o].shader}

Lifecycle == {<<"None", "Constructing">>, <<"Constructing", "Ready">>, <<"Ready", "Destroyed">>}

\* C4: an object goes Constructing -> Ready -> Destroyed; draw can run, and has run,
\* only on a Ready object whose mesh, texture and shader entries exist in state
\* Final, although the object is in the drawable group while it is Constructing.
C4_DrawOnlyWhenReady ==
    /\ [](lastDraw # NoDraw =>
            /\ lastDraw.state = "Ready"
            /\ lastDraw.shader # 0 /\ lastDraw.texture # 0 /\ lastDraw.mesh # 0
            /\ lastDraw.final)
    /\ [](\A o \in Objs : DrawEnabled(o) =>
            Ready(o) /\ \A h \in Handles(o) : IsFinal(cache, h))
    /\ [][\A o \in Objs : obj'[o].state # obj[o].state =>
            <<obj[o].state, obj'[o].state>> \in Lifecycle]_vars

\* an object is Constructing, and in the group, after a draw of another object
C4_Witness ==
    /\ lastDraw # NoDraw
    /\ \E o \in Objs : obj[o].state = "Constructing" /\ o \in group /\ pc = "shader"

\* C5: the three handles of every Ready object refer to entries that are present in
\* the cache and Final, whatever draws, constructions and destructions of other
\* objects have happened.
C5_HandlesStayValid ==
    \A o \in Objs : Ready(o) =>
        \A h \in Handles(o) : h.data # 0 /\ IsFinal(cache, h)

\* an object is still Ready after a draw and after another object was destroyed
C5_Witness ==
    /\ Ready(1)
    /\ obj[2].state = "Destroyed"
    /\ lastDraw # NoDraw

\* C6: a draw leaves the cache as it was: the same entries, each with the same
\* resource, state, policy and reference count.
C6_DrawLeavesCache == [][lastDraw' # lastDraw => cache' = cache]_vars

\* a draw has run with all five constructed entries and the importer in the cache
C6_Witness ==
    /\ lastDraw # NoDraw
    /\ \A k \in AllKeys : Entries(cache, k) # {}

\* C7: once an object has been constructed, the entries "cube", "texture" and
\* "shader" stay retrievable, also when every object has been destroyed; a
\* constructor that runs after another one completed misses on nothing, so nothing
\* is constructed twice; no step removes a Manual entry.
C7_EntriesOutliveObjects ==
    /\ []((\E o \in Objs : obj[o].state \in {"Ready", "Destroyed"}) =>
            /\ \A k \in ResolvedKeys : Acquire(cache, k) # 0
            /\ cur # 0 => missed = {}
            /\ Len(meshes) = 1 /\ Len(textures) = 1 /\ Len(shaders) = 1)
    /\ [][\A e \in cache : e.policy = "Manual" => e \in cache']_vars

\* a constructor has hit on all three keys after the only other object was destroyed
C7_Witness ==
    /\ obj[1].state = "Destroyed"
    /\ group = {2}
    /\ cur = 2 /\ pc = "shader" /\ missed = {}
    /\ obj[2].cube.data # 0 /\ obj[2].texture.data # 0

\* C8: the uniform uploaded by draw is C * W, where C is projection * view and W the
\* object's world transform; it is W * C only where the two products agree.
C8_UniformIsCameraTimesWorld ==
    lastDraw # NoDraw /\ lastDraw.shader # 0 =>
        LET C == Mul(lastDraw.projection, lastDraw.view)
            W == lastDraw.world
        IN  /\ shaders[lastDraw.shader].uniform = Mul(C, W)
            /\ lastDraw.ops[1].value = Mul(C, W)
            /\ Mul(C, W) # Mul(W, C) => shaders[lastDraw.shader].uniform # Mul(W, C)

\* a draw whose camera and world transforms do not commute
C8_Witness ==
    /\ lastDraw # NoDraw
    /\ Mul(Mul(lastDraw.projection, lastDraw.view), lastDraw.world)
            # Mul(lastDraw.world, Mul(lastDraw.projection, lastDraw.view))
    /\ lastDraw.projection # lastDraw.view

\* C9: a texture whose first face was decoded has the storage size of that face and
\* L = floor(log2(m)) + 1 levels, m the smaller edge of that face: 2^(L-1) <= m < 2^L,
\* 9 levels for a 256x256 face; the later faces change neither.
C9_MipLevelsFromFirstFace ==
    \A i \in 1..Len(textures) :
        LET t == textures[i]
        IN  t.first # NoImage =>
                /\ t.size = t.first
                /\ t.levels >= 1
                /\ \A m \in {t.first[1], t.first[2]} :
                        (m <= t.first[1] /\ m <= t.first[2]) =>
                            Pow2(t.levels - 1) <= m /\ m < Pow2(t.levels)
                /\ t.first = <<256, 256>> => t.levels = 9

\* a registered texture built from six decoded faces, the first 256x256
C9_Witness ==
    /\ Len(textures) = 1
    /\ textures[1].first = <<256, 256>>
    /\ textures[1].levels = 9
    /\ textures[1].failedAt = 0
    /\ Acquire(cache, TextureKey) = 1

ExpectedOps ==
    << GpuOp("setStorage", "", 0),
       GpuOp("setSubImage", "PositiveX", 0), GpuOp("setSubImage", "NegativeX", 0),
       GpuOp("setSubImage", "PositiveY", 0), GpuOp("setSubImage", "NegativeY", 0),
       GpuOp("setSubImage", "PositiveZ", 0), GpuOp("setSubImage", "NegativeZ", 0),
       GpuOp("generateMipmap", "", 0) >>

\* C10: the GPU commands of a texture are always a prefix of: setStorage, the six
\* setSubImage at level 0 in the order +X, -X, +Y, -Y, +Z, -Z, generateMipmap; the
\* texture is registered, in state Final, only with the whole sequence issued, and
\* no entry for the texture key exists while the constructor is still building it.
C10_TextureBuildOrder ==
    /\ \A i \in 1..Len(textures) :
        /\ Len(textures[i].ops) <= Len(ExpectedOps)
        /\ textures[i].ops = SubSeq(ExpectedOps, 1, Len(textures[i].ops))
    /\ \A e \in Entries(cache, TextureKey) :
        /\ e.state = "Final"
        /\ e.data \in 1..Len(textures)
        /\ textures[e.data].ops = ExpectedOps
    /\ pc \in {"face", "mipmap", "setTexture"} => Entries(cache, TextureKey) = {}

\* the texture is registered after six decoded faces
C10_Witness ==
    /\ Acquire(cache, TextureKey) = 1
    /\ textures[1].failedAt = 0
    /\ textures[1].ops = ExpectedOps

\* the handle has been assigned by a get for k
Got(h, k) == h.kind = k.kind /\ h.key = k.key

\* C11: a constructor resolves the mesh "cube", then the texture "texture", then the
\* shader "shader": its handles are assigned in that order and the entries appear in
\* that order; every entry of the cache is in state Final, and the texture entry
\* appears only with the texture configured and all its commands issued, so no
\* entry in state Loading is there for another constructor or for draw to see.
C11_FixedOrderFinalOnly ==
    /\ \A e \in cache : e.state = "Final"
    /\ Entries(cache, ShaderKey) # {} => Entries(cache, TextureKey) # {}
    /\ Entries(cache, TextureKey) # {} => Entries(cache, MeshKey) # {}
    /\ \A e \in Entries(cache, TextureKey) :
        /\ textures[e.data].wrapping = "ClampToEdge"
        /\ textures[e.data].levels >= 1
        /\ Uploads(textures[e.data]) = Len(FaceFile)
    /\ \A e \in Entries(cache, MeshKey) :
        /\ e.data \in 1..Len(meshes)
        /\ Acquire(cache, BufferKey) = meshes[e.data].vertexBuffer
        /\ Acquire(cache, IndexBufferKey) = meshes[e.data].indexBuffer
    /\ \A o \in Objs :
        /\ obj[o].state = "Constructing" /\ pc = "mesh" =>
                obj[o].cube = NoHandle /\ obj[o].texture = NoHandle /\ obj[o].shader = NoHandle
        /\ obj[o].state = "Constructing" /\ pc = "texture" =>
                Got(obj[o].cube, MeshKey) /\ obj[o].texture = NoHandle /\ obj[o].shader = NoHandle
        /\ obj[o].state = "Constructing" /\ pc \notin {"mesh", "texture"} =>
                /\ Got(obj[o].cube, MeshKey) /\ Got(obj[o].texture, TextureKey)
                /\ obj[o].shader = NoHandle
                /\ Entries(cache, MeshKey) # {}
        /\ Ready(o) =>
                /\ Got(obj[o].cube, MeshKey) /\ Got(obj[o].texture, TextureKey)
                /\ Got(obj[o].shader, ShaderKey)

\* the first constructor has built its texture and not yet registered it, the mesh
\* being registered and the shader not
C11_Witness ==
    /\ pc = "setTexture" /\ cur = 1
    /\ textures[1].failedAt = 0
    /\ Entries(cache, MeshKey) # {}
    /\ Entries(cache, TextureKey) = {}
    /\ Entries(cache, ShaderKey) = {}

OpNames(ops) == [i \in 1..Len(ops) |-> ops[i].op]

DrawTargets ==
    /\ \A i \in 1..Len(lastDraw.ops) :
        /\ lastDraw.ops[i].op \in {"setTransformationProjectionMatrix", "use"} =>
                lastDraw.ops[i].on = lastDraw.shader
        /\ lastDraw.ops[i].op = "bind" => lastDraw.ops[i].on = lastDraw.texture
        /\ lastDraw.ops[i].op = "draw" => lastDraw.ops[i].on = lastDraw.mesh
    /\ Cardinality({i \in 1..Len(lastDraw.ops) : lastDraw.ops[i].op = "draw"}) = 1

\* C12 as stated: within one draw the shader is bound, then the uniform is uploaded,
\* then the texture is bound, and the mesh is drawn last, once.
C12_ShaderBoundFirst ==
    lastDraw # NoDraw =>
        /\ OpNames(lastDraw.ops) = <<"use", "setTransformationProjectionMatrix", "bind", "draw">>
        /\ DrawTargets

\* C12 amended: within one draw the transformation-projection uniform is set on the
\* shader, then that shader is bound with use(), then the texture is bound, and the
\* mesh is drawn last, exactly once.
C12_DrawCommandOrder ==
    lastDraw # NoDraw =>
        /\ OpNames(lastDraw.ops) = <<"setTransformationProjectionMatrix", "use", "bind", "draw">>
        /\ DrawTargets

\* a draw of a Ready object has issued its four commands on the cached resources
C12_Witness ==
    /\ lastDraw.state = "Ready"
    /\ Len(lastDraw.ops) = 4
    /\ lastDraw.ops[4].on = 1 /\ lastDraw.ops[3].on = 1 /\ lastDraw.ops[2].on = 1

\* the entries the application registered for the importer plugin
ImporterEntries == {e \in cache : e.kind = "AbstractImporter" /\ e.key = "tga-importer"}

\* C13: no step of the constructor registers, changes or removes the "tga-importer"
\* entry, so it is there exactly when it was registered before the first CubeMap; if
\* it was, the importer handle a constructor dereferences after a texture miss
\* refers to that entry, in state Final; if it was not, the handle is null there.
C13_ImporterFinalIfRegistered ==
    /\ [][ImporterEntries' = ImporterEntries]_vars
    /\ [](pc = "face" =>
            /\ TextureKey \in missed
            /\ ImporterEntries # {} =>
                    /\ importer.data # 0
                    /\ \E e \in ImporterEntries : e.data = importer.data /\ e.state = "Final"
            /\ ImporterEntries = {} => importer.data = 0)

\* a constructor that missed on the texture is about to open a face file through the
\* registered importer
C13_Witness ==
    /\ pc = "face" /\ face = 2
    /\ importer.data = 1
    /\ ImporterEntries # {}

ResidentKeys == {MeshKey, BufferKey, IndexBufferKey}

\* C14: the entries "cube", "cube-buffer" and "cube-index-buffer" are all three
\* present or all three absent, and an entry that is present stays as it is: it is
\* neither evicted nor replaced, whatever is constructed or destroyed.
C14_ResidentTogether ==
    /\ []((\A k \in ResidentKeys : Entries(cache, k) = {})
            \/ (\A k \in ResidentKeys : Cardinality(Entries(cache, k)) = 1))
    /\ [][\A k \in ResidentKeys :
            Entries(cache, k) # {} => Entries(cache', k) = Entries(cache, k)]_vars

\* the three entries are there after every object was constructed and destroyed
C14_Witness ==
    /\ \A k \in ResidentKeys : Entries(cache, k) # {}
    /\ \A o \in Objs : obj[o].state = "Destroyed"

\* C15: the texture a Ready object holds was built from that object's prefix: its
\* six face files were opened under the object's own prefix (stated for textures
\* all of whose faces were decoded).
C15_TextureFromOwnPrefix ==
    \A o \in Objs :
        Ready(o) /\ obj[o].texture.data \in 1..Len(textures) =>
            LET t == textures[obj[o].texture.data]
            IN  t.failedAt = 0 =>
                    /\ t.prefix = obj[o].prefix
                    /\ Len(t.opened) = Len(FaceFile)
                    /\ \A i \in 1..Len(t.opened) : t.opened[i] = <<obj[o].prefix, FaceFile[i]>>

\* C16: whenever keyEvent(End) has called ducks->flip(), the pointer tryCreate
\* returned is not null; every key event ends with the redraw requested and the
\* application running, and a key other than End leaves the ducks as they were.
C16_EndNeverDereferencesNull ==
    /\ [](pool.lastKey = "End" => pool.ducks # "nullptr")
    /\ [][pool'.keys # pool.keys =>
            /\ pool'.redraw /\ pool'.pc = "exec"
            /\ pool'.ducks = pool.ducks
            /\ pool'.lastKey # "End" => pool'.flipped = pool.flipped]_vars
====
